---- MODULE Spec2Model ----
(***************************************************************************)
(* Model of src/service/osu_mute.rs: the OsuMuteService lifecycle          *)
(* (start/stop), its background task and the watchdog continuation.        *)
(*                                                                         *)
(* Strings built by format!/Display are sequences of text fragments, so    *)
(* that "the reason contains the error's description" is a subsequence     *)
(* test.  Lock ownership is derived from the program counters: a guard is  *)
(* held exactly between the step that acquires it and the step that drops  *)
(* it.                                                                     *)
(***************************************************************************)
EXTENDS Naturals, Sequences, FiniteSets

\* ---------------------------------------------------------------- bounds
MaxUsers == 2
MaxTicks == 2

Users == 1..MaxUsers

\* ---------------------------------------------------------------- status
PlainKinds == {"NotStarted", "Starting", "Started", "Stopping", "Stopped"}

Plain(kind) == [kind |-> kind, reason |-> <<>>]

RuntimeError(reason) == [kind |-> "RuntimeError", reason |-> reason]

DiscordReasons == {<<"connection lost">>}

DiscordStatuses == {Plain(k) : k \in PlainKinds} \cup {RuntimeError(r) : r \in DiscordReasons}

StatusToString(status) ==
    IF status.kind = "RuntimeError"
    THEN <<"RuntimeError: ">> \o status.reason
    ELSE <<status.kind>>

Contains(text, part) ==
    \E i \in 1..(Len(text) + 1) :
        /\ i + Len(part) - 1 <= Len(text)
        /\ SubSeq(text, i, i + Len(part) - 1) = part

\* ---------------------------------------------------------------- SetLock
EmptyCell == <<>>

SetLockSet(cell, value) ==
    IF cell = EmptyCell
    THEN [ok |-> TRUE, cell |-> <<value>>]
    ELSE [ok |-> FALSE, cell |-> cell]

IsSet(cell) == cell # EmptyCell

\* ---------------------------------------------------------------- TaskError
DiscordServiceNotFound == [tag |-> "DiscordServiceNotFound", status |-> <<>>]

DiscordServiceNotAvailable(status) == [tag |-> "DiscordServiceNotAvailable", status |-> status]

TaskErrors ==
    {DiscordServiceNotFound}
        \cup {DiscordServiceNotAvailable(StatusToString(s)) : s \in DiscordStatuses \ {Plain("Started")}}

TaskErrorDisplay(error) ==
    IF error.tag = "DiscordServiceNotFound"
    THEN <<"Discord service not found!">>
    ELSE <<"Discord service expected to be available, but it was ">> \o error.status

Ok == [ok |-> TRUE, err |-> DiscordServiceNotFound]

Err(error) == [ok |-> FALSE, err |-> error]

Results == {Ok} \cup {Err(e) : e \in TaskErrors}

StoppedUnexpectedly == <<"The background task has stopped unexpectedly.">>

EncounteredError == <<"The background task has encountered an error: ">>


\* ---------------------------------------------------------------- state
VARIABLES
    osuRegistered,      \* ServiceManager has an OsuMuteService entry
    discordRegistered,  \* ServiceManager has a DiscordService entry
    discordStatus,      \* DiscordService info().status
    osuStatus,          \* OsuMuteService info.status
    discord_service,    \* SetLock<Arc<RwLock<DiscordService>>>
    task_notify,        \* SetLock<Notify>
    task,               \* SetLock<JoinHandle<()>>
    muted_users,        \* keys of the muted_users map
    permit,             \* the Notify's stored permit
    tasks,              \* the spawned futures (task then watchdog), by handle
    call                \* the caller of start()/stop(): position, locals, result

vars == <<osuRegistered, discordRegistered, discordStatus, osuStatus, discord_service,
          task_notify, task, muted_users, permit, tasks, call>>

serviceFields == <<discord_service, task_notify, task, muted_users>>

registry == <<osuRegistered, discordRegistered>>

NoResult == <<>>

StartOk == <<"Ok">>

ErrDiscordNotAvailable == <<"DiscordService is not available!">>

ErrDiscordNotFound == <<"DiscordService not found!">>

AlreadySet == "AlreadySet"

ErrSetDiscord == <<"Error setting DiscordService SetLock: ", AlreadySet>>

ErrSetNotify == <<"Error setting Notify SetLock: ", AlreadySet>>

ErrSetTask == <<"Error setting Watchdog JoinHandle SetLock: ", AlreadySet>>

\* started records that an earlier start() on this instance returned Ok(())
IdleCall ==
    [pc |-> "idle", op |-> "none", found |-> FALSE, avail |-> FALSE, result |-> NoResult,
     started |-> FALSE]

\* A freshly spawned future: position, the local are_users_muted, whether it
\* passed the wake signal since it last evaluated the condition, ticks since
\* that evaluation, whether muted_users was empty when it came through the
\* signal, the task's return value, the abort flag of its handle, and the
\* lock guards it holds (by the name of the variable that owns the guard).
NewTask ==
    [pc |-> "t126", are_users_muted |-> FALSE, woken |-> FALSE, evaluated |-> FALSE,
     empty_at_wake |-> FALSE, ticks |-> 0, result |-> Ok, abort |-> FALSE, guards |-> {}]

\* OsuMuteService::new
Init ==
    /\ osuRegistered \in BOOLEAN
    /\ discordRegistered \in BOOLEAN
    /\ discordStatus = Plain("NotStarted")
    /\ osuStatus = Plain("NotStarted")
    /\ discord_service = EmptyCell
    /\ task_notify = EmptyCell
    /\ task = EmptyCell
    /\ muted_users = {}
    /\ permit = FALSE
    /\ tasks = <<>>
    /\ call = IdleCall

\* ---------------------------------------------------------------- guards held
Finished == {"done", "panicked", "wdPanicked", "aborted"}

\* tasks holding osu_mute_service.read()
OsuReadHolders == {t \in DOMAIN tasks : tasks[t].pc \in {"t146", "t149", "t161", "w173", "w175"}}

\* the caller has &mut self
OsuWriteHeld == call.pc \in {"start61", "start77", "startRet", "stop98", "stopRet"}

OsuWriteQueued == call.pc = "queued"

CanReadOsu == ~OsuWriteHeld /\ ~OsuWriteQueued

\* tasks holding task_notify.read() (the temporary lives across notified().await)
NotifyReadHolders == {t \in DOMAIN tasks : tasks[t].pc = "t146"}

\* ---------------------------------------------------------------- environment
EnvRegister ==
    /\ \/ ~osuRegistered /\ osuRegistered' = TRUE /\ UNCHANGED discordRegistered
       \/ ~discordRegistered /\ discordRegistered' = TRUE /\ UNCHANGED osuRegistered
    /\ UNCHANGED <<discordStatus, osuStatus, serviceFields, permit, tasks, call>>

EnvDiscordStatus ==
    /\ discordRegistered
    /\ \E s \in DiscordStatuses \ {discordStatus} : discordStatus' = s
    /\ UNCHANGED <<registry, osuStatus, serviceFields, permit, tasks, call>>

\* Notify::notify_one: hands the notification to a waiter, else stores a permit
NotifyOne ==
    IF \E t \in NotifyReadHolders : ~tasks[t].woken
    THEN /\ \E t \in NotifyReadHolders :
              /\ ~tasks[t].woken
              /\ tasks' = [tasks EXCEPT ![t].woken = TRUE]
         /\ UNCHANGED permit
    ELSE /\ permit' = TRUE
         /\ UNCHANGED tasks

EnvAddWork ==
    /\ CanReadOsu
    /\ \E u \in Users \ muted_users : muted_users' = muted_users \cup {u}
    /\ IF IsSet(task_notify) THEN NotifyOne ELSE UNCHANGED <<permit, tasks>>
    /\ UNCHANGED <<registry, discordStatus, osuStatus, discord_service, task_notify, task, call>>

EnvRemoveWork ==
    /\ CanReadOsu
    /\ \E u \in muted_users : muted_users' = muted_users \ {u}
    /\ UNCHANGED <<registry, discordStatus, osuStatus, discord_service, task_notify, task,
                   permit, tasks, call>>

\* ---------------------------------------------------------------- manager
MgrCall ==
    /\ call.pc = "idle"
    /\ \E op \in {"start", "stop"} : call' = [IdleCall EXCEPT !.pc = "queued", !.op = op, !.started = call.started]
    /\ UNCHANGED <<registry, discordStatus, osuStatus, serviceFields, permit, tasks>>

MgrAcquire ==
    /\ call.pc = "queued"
    /\ OsuReadHolders = {}
    /\ call' = [call EXCEPT !.pc = IF call.op = "start" THEN "start61" ELSE "stop98"]
    /\ osuStatus' = IF call.op = "start" THEN Plain("Starting") ELSE Plain("Stopping")
    /\ UNCHANGED <<registry, discordStatus, serviceFields, permit, tasks>>

MgrReturn ==
    /\ call.pc \in {"startRet", "stopRet"}
    /\ call' = [call EXCEPT !.pc = "idle",
                             !.started = @ \/ (call.pc = "startRet" /\ call.result = StartOk)]
    /\ IF call.pc = "stopRet"
       THEN osuStatus' = Plain("Stopped")
       ELSE IF call.result = StartOk
            THEN osuStatus' = Plain("Started")
            ELSE osuStatus' \in {Plain("NotStarted"), RuntimeError(call.result)}
    /\ UNCHANGED <<registry, discordStatus, serviceFields, permit, tasks>>


\* ---------------------------------------------------------------- start / stop
\* variant: the handle is stored before the availability check
StartResolve_SetBeforeCheck ==
    /\ call.pc = "start61"
    /\ IF ~discordRegistered
       THEN /\ call' = [call EXCEPT !.pc = "startRet", !.result = ErrDiscordNotFound]
            /\ UNCHANGED discord_service
       ELSE \E available \in BOOLEAN :
              LET result == SetLockSet(discord_service, "DiscordService") IN
              /\ discord_service' = result.cell
              /\ call' = IF ~available
                         THEN [call EXCEPT !.pc = "startRet", !.found = TRUE,
                                           !.result = ErrDiscordNotAvailable]
                         ELSE IF result.ok
                         THEN [call EXCEPT !.pc = "start77", !.found = TRUE, !.avail = TRUE]
                         ELSE [call EXCEPT !.pc = "startRet", !.found = TRUE, !.avail = TRUE,
                                           !.result = ErrSetDiscord]
    /\ UNCHANGED <<registry, discordStatus, osuStatus, task_notify, task, muted_users,
                   permit, tasks>>

\* variant: the result of is_available() is not looked at
StartResolve_NoAvailabilityCheck ==
    /\ call.pc = "start61"
    /\ IF ~discordRegistered
       THEN /\ call' = [call EXCEPT !.pc = "startRet", !.result = ErrDiscordNotFound]
            /\ UNCHANGED discord_service
       ELSE \E available \in BOOLEAN :
              LET result == SetLockSet(discord_service, "DiscordService") IN
              /\ discord_service' = result.cell
              /\ call' = IF result.ok
                         THEN [call EXCEPT !.pc = "start77", !.found = TRUE, !.avail = available]
                         ELSE [call EXCEPT !.pc = "startRet", !.found = TRUE, !.avail = available,
                                           !.result = ErrSetDiscord]
    /\ UNCHANGED <<registry, discordStatus, osuStatus, task_notify, task, muted_users,
                   permit, tasks>>

\* start(), lines 61-75: look the dependency up, check it, store its handle
StartResolve ==
    /\ call.pc = "start61"
    /\ IF ~discordRegistered
       THEN /\ call' = [call EXCEPT !.pc = "startRet", !.result = ErrDiscordNotFound]
            /\ UNCHANGED discord_service
       ELSE \E available \in BOOLEAN :
              IF ~available
              THEN /\ call' = [call EXCEPT !.pc = "startRet", !.found = TRUE,
                                           !.result = ErrDiscordNotAvailable]
                   /\ UNCHANGED discord_service
              ELSE LET result == SetLockSet(discord_service, "DiscordService") IN
                   /\ discord_service' = result.cell
                   /\ call' = IF result.ok
                              THEN [call EXCEPT !.pc = "start77", !.found = TRUE, !.avail = TRUE]
                              ELSE [call EXCEPT !.pc = "startRet", !.found = TRUE, !.avail = TRUE,
                                                !.result = ErrSetDiscord]
    /\ UNCHANGED <<registry, discordStatus, osuStatus, task_notify, task, muted_users,
                   permit, tasks>>

\* variant: the JoinHandle is dropped instead of stored
StartSpawn_HandleDropped ==
    /\ call.pc = "start77"
    /\ NotifyReadHolders = {}
    /\ LET notify == SetLockSet(task_notify, "Notify") IN
       IF ~notify.ok
       THEN /\ call' = [call EXCEPT !.pc = "startRet", !.result = ErrSetNotify]
            /\ UNCHANGED <<task_notify, permit, tasks, task>>
       ELSE /\ task_notify' = notify.cell
            /\ permit' = FALSE
            /\ tasks' = Append(tasks, NewTask)
            /\ UNCHANGED task
            /\ call' = [call EXCEPT !.pc = "startRet", !.result = StartOk]
    /\ UNCHANGED <<registry, discordStatus, osuStatus, discord_service, muted_users>>

\* variant: the Notify is created but not stored in its cell
StartSpawn_NotifyNotStored ==
    /\ call.pc = "start77"
    /\ NotifyReadHolders = {}
    /\ LET task_handle == Len(tasks) + 1
           result == SetLockSet(task, task_handle)
       IN  /\ UNCHANGED <<task_notify, permit>>
           /\ tasks' = Append(tasks, NewTask)
           /\ task' = result.cell
           /\ call' = [call EXCEPT !.pc = "startRet",
                                   !.result = IF result.ok THEN StartOk ELSE ErrSetTask]
    /\ UNCHANGED <<registry, discordStatus, osuStatus, discord_service, muted_users>>

\* start(), lines 77-92: store the Notify, spawn task-then-watchdog, store the handle
StartSpawn ==
    /\ call.pc = "start77"
    /\ NotifyReadHolders = {}
    /\ LET notify == SetLockSet(task_notify, "Notify") IN
       IF ~notify.ok
       THEN /\ call' = [call EXCEPT !.pc = "startRet", !.result = ErrSetNotify]
            /\ UNCHANGED <<task_notify, permit, tasks, task>>
       ELSE LET task_handle == Len(tasks) + 1
                result == SetLockSet(task, task_handle)
            IN  /\ task_notify' = notify.cell
                /\ permit' = FALSE
                /\ tasks' = Append(tasks, NewTask)
                /\ task' = result.cell
                /\ call' = [call EXCEPT !.pc = "startRet",
                                        !.result = IF result.ok THEN StartOk ELSE ErrSetTask]
    /\ UNCHANGED <<registry, discordStatus, osuStatus, discord_service, muted_users>>

\* variant: stop() returns without aborting
Stop_NoAbort ==
    /\ call.pc = "stop98"
    /\ IF ~IsSet(task)
       THEN call' = [call EXCEPT !.pc = "crashed", !.result = <<"panic">>]
       ELSE call' = [call EXCEPT !.pc = "stopRet", !.result = StartOk]
    /\ UNCHANGED <<registry, discordStatus, osuStatus, serviceFields, permit, tasks>>

\* variant: stop() also empties the cells
Stop_ClearsCells ==
    /\ call.pc = "stop98"
    /\ IF ~IsSet(task)
       THEN /\ call' = [call EXCEPT !.pc = "crashed", !.result = <<"panic">>]
            /\ UNCHANGED <<tasks, discord_service, task_notify, task>>
       ELSE /\ tasks' = [tasks EXCEPT ![task[1]].abort = TRUE]
            /\ call' = [call EXCEPT !.pc = "stopRet", !.result = StartOk]
            /\ discord_service' = EmptyCell
            /\ task_notify' = EmptyCell
            /\ task' = EmptyCell
    /\ UNCHANGED <<registry, discordStatus, osuStatus, muted_users, permit>>

\* stop(), lines 96-101: abort through the stored handle
Stop ==
    /\ call.pc = "stop98"
    /\ IF ~IsSet(task)
       THEN /\ call' = [call EXCEPT !.pc = "crashed", !.result = <<"panic">>]
            /\ UNCHANGED tasks
       ELSE /\ tasks' = [tasks EXCEPT ![task[1]].abort = TRUE]
            /\ call' = [call EXCEPT !.pc = "stopRet", !.result = StartOk]
    /\ UNCHANGED <<registry, discordStatus, osuStatus, serviceFields, permit>>

\* JoinHandle::abort takes effect: the runtime drops the unfinished future
AbortEffect(t) ==
    /\ tasks[t].abort
    /\ tasks[t].pc \notin Finished
    /\ tasks' = [tasks EXCEPT ![t].pc = "aborted", ![t].guards = {}]
    /\ UNCHANGED <<registry, discordStatus, osuStatus, serviceFields, permit, call>>

\* ---------------------------------------------------------------- task
\* task(), lines 126-129
TaskResolve(t) ==
    /\ tasks[t].pc = "t126"
    /\ tasks' = IF osuRegistered
                THEN [tasks EXCEPT ![t].pc = "t133"]
                ELSE [tasks EXCEPT ![t].pc = "w167", ![t].result = Err(DiscordServiceNotFound)]
    /\ UNCHANGED <<registry, discordStatus, osuStatus, serviceFields, permit, call>>

\* line 139: the loop waits on the wake signal unless are_users_muted
WaitsForNotify(are_users_muted) == ~are_users_muted

\* task(), lines 133-146: lock the service, evaluate the condition, maybe wait
TaskCheckWork(t) ==
    /\ tasks[t].pc = "t133"
    /\ CanReadOsu
    /\ LET are_users_muted == (muted_users = {})
           entered == [tasks[t] EXCEPT !.are_users_muted = are_users_muted,
                                       !.woken = FALSE, !.evaluated = TRUE,
                                       !.empty_at_wake = FALSE, !.ticks = 0,
                                       !.guards = {"osu_mute_service_lock"}]
       IN  IF ~WaitsForNotify(are_users_muted)
           THEN /\ tasks' = [tasks EXCEPT ![t] = [entered EXCEPT !.pc = "t149"]]
                /\ UNCHANGED permit
           ELSE IF ~IsSet(task_notify)
           THEN /\ tasks' = [tasks EXCEPT ![t] = [entered EXCEPT !.pc = "panicked", !.guards = {}]]
                /\ UNCHANGED permit
           ELSE IF permit
           THEN /\ tasks' = [tasks EXCEPT ![t] = [entered EXCEPT !.pc = "t149", !.woken = TRUE,
                                                               !.empty_at_wake = are_users_muted]]
                /\ permit' = FALSE
           ELSE /\ tasks' = [tasks EXCEPT ![t] = [entered EXCEPT !.pc = "t146",
                                        !.guards = {"osu_mute_service_lock", "task_notify"}]]
                /\ UNCHANGED permit
    /\ UNCHANGED <<registry, discordStatus, osuStatus, serviceFields, call>>

\* line 146: notified() completes
TaskWake(t) ==
    /\ tasks[t].pc = "t146"
    /\ tasks[t].woken
    /\ tasks' = [tasks EXCEPT ![t].pc = "t149", ![t].empty_at_wake = (muted_users = {}),
                              ![t].guards = {"osu_mute_service_lock"}]
    /\ UNCHANGED <<registry, discordStatus, osuStatus, serviceFields, permit, call>>

\* variant: only a failed dependency counts as unavailable
DiscordUsable_NotFailed(status) == status.kind # "RuntimeError"

\* line 153: matches!(*discord_service_status, Status::Started)
DiscordUsable(status) == status.kind = "Started"

\* variant: the status guard is not dropped after the check
GuardsAfterStatusCheck_NoDrop(guards) ==
    guards \cup {"discord_service_lock", "discord_service_status"}

\* lines 150-158: discord_service_lock is kept, discord_service_status is dropped
GuardsAfterStatusCheck(guards) == guards \cup {"discord_service_lock"}

\* task(), lines 149-158: read the dependency's status
TaskCheckDiscord(t) ==
    /\ tasks[t].pc = "t149"
    /\ tasks' = IF ~IsSet(discord_service)
                THEN [tasks EXCEPT ![t].pc = "panicked", ![t].guards = {}]
                ELSE IF ~DiscordUsable(discordStatus)
                THEN [tasks EXCEPT ![t].pc = "w167", ![t].guards = {},
                                   ![t].result =
                                       Err(DiscordServiceNotAvailable(StatusToString(discordStatus)))]
                ELSE [tasks EXCEPT ![t].pc = "t161",
                                   ![t].guards = GuardsAfterStatusCheck(@)]
    /\ UNCHANGED <<registry, discordStatus, osuStatus, serviceFields, permit, call>>

\* variant: the loop head sits below the condition
TaskTick_SkipCondition(t) ==
    /\ tasks[t].pc = "t161"
    /\ tasks' = [tasks EXCEPT ![t].pc = "t149",
                              ![t].ticks = IF @ < MaxTicks THEN @ + 1 ELSE @]
    /\ UNCHANGED <<registry, discordStatus, osuStatus, serviceFields, permit, call>>

\* task(), lines 161-163: sleep, tick, drop the guards, next iteration
TaskTick(t) ==
    /\ tasks[t].pc = "t161"
    /\ tasks' = [tasks EXCEPT ![t].pc = "t133", ![t].guards = {},
                              ![t].ticks = IF @ < MaxTicks THEN @ + 1 ELSE @]
    /\ UNCHANGED <<registry, discordStatus, osuStatus, serviceFields, permit, call>>

\* ---------------------------------------------------------------- watchdog
\* watchdog(), lines 167-170
WdResolve(t) ==
    /\ tasks[t].pc = "w167"
    /\ tasks' = [tasks EXCEPT ![t].pc = IF osuRegistered THEN "w172" ELSE "wdPanicked"]
    /\ UNCHANGED <<registry, discordStatus, osuStatus, serviceFields, permit, call>>

\* watchdog(), line 172
WdLockService(t) ==
    /\ tasks[t].pc = "w172"
    /\ CanReadOsu
    /\ tasks' = [tasks EXCEPT ![t].pc = "w173", ![t].guards = {"osu_mute_service_lock"}]
    /\ UNCHANGED <<registry, discordStatus, osuStatus, serviceFields, permit, call>>

\* variant: a clean return is taken for a regular stop
WatchdogStatus_CleanIsStopped(result) ==
    IF result.ok
    THEN Plain("Stopped")
    ELSE RuntimeError(EncounteredError \o TaskErrorDisplay(result.err))

\* variant: the error is left out of the reason
WatchdogStatus_NoDescription(result) ==
    IF result.ok
    THEN RuntimeError(StoppedUnexpectedly)
    ELSE RuntimeError(EncounteredError)

\* lines 175-185: the status the watchdog records for a task result
WatchdogStatus(result) ==
    IF result.ok
    THEN RuntimeError(StoppedUnexpectedly)
    ELSE RuntimeError(EncounteredError \o TaskErrorDisplay(result.err))

\* watchdog(), line 173: take the write guard on the service's status
WdLockStatus(t) ==
    /\ tasks[t].pc = "w173"
    /\ tasks' = [tasks EXCEPT ![t].pc = "w175",
                              ![t].guards = @ \cup {"osu_mute_service_status"}]
    /\ UNCHANGED <<registry, discordStatus, osuStatus, serviceFields, permit, call>>

\* variant: the watchdog restarts the task after recording the failure
WdWrite_Respawn(t) ==
    /\ tasks[t].pc = "w175"
    /\ osuStatus' = WatchdogStatus(tasks[t].result)
    /\ tasks' = Append([tasks EXCEPT ![t].pc = "done", ![t].guards = {}], NewTask)
    /\ UNCHANGED <<registry, discordStatus, serviceFields, permit, call>>

\* variant: the watchdog also empties the tracked work
WdWrite_ClearsWork(t) ==
    /\ tasks[t].pc = "w175"
    /\ osuStatus' = WatchdogStatus(tasks[t].result)
    /\ tasks' = [tasks EXCEPT ![t].pc = "done", ![t].guards = {}]
    /\ muted_users' = {}
    /\ UNCHANGED <<registry, discordStatus, discord_service, task_notify, task, permit, call>>

\* watchdog(), lines 175-192: assign, log, drop the guards
WdWrite(t) ==
    /\ tasks[t].pc = "w175"
    /\ osuStatus' = WatchdogStatus(tasks[t].result)
    /\ tasks' = [tasks EXCEPT ![t].pc = "done", ![t].guards = {}]
    /\ UNCHANGED <<registry, discordStatus, serviceFields, permit, call>>

\* ---------------------------------------------------------------- specification
Next ==
    \/ EnvRegister
    \/ EnvDiscordStatus
    \/ EnvAddWork
    \/ EnvRemoveWork
    \/ MgrCall
    \/ MgrAcquire
    \/ MgrReturn
    \/ StartResolve
    \/ StartSpawn
    \/ Stop
    \/ \E t \in DOMAIN tasks : AbortEffect(t)
    \/ \E t \in DOMAIN tasks : TaskResolve(t)
    \/ \E t \in DOMAIN tasks : TaskCheckWork(t)
    \/ \E t \in DOMAIN tasks : TaskWake(t)
    \/ \E t \in DOMAIN tasks : TaskCheckDiscord(t)
    \/ \E t \in DOMAIN tasks : TaskTick(t)
    \/ \E t \in DOMAIN tasks : WdResolve(t)
    \/ \E t \in DOMAIN tasks : WdLockService(t)
    \/ \E t \in DOMAIN tasks : WdLockStatus(t)
    \/ \E t \in DOMAIN tasks : WdWrite(t)

Spec == Init /\ [][Next]_vars

\* The watchdog applied to a stubbed task result: every result a task of
\* type Result<(), TaskError> can produce, on a service in any status.
OsuStatuses ==
    {Plain(k) : k \in PlainKinds} \cup {RuntimeError(<<"start failed">>)}

InitWatchdog ==
    /\ osuRegistered \in BOOLEAN
    /\ discordRegistered = TRUE
    /\ discordStatus = Plain("Started")
    /\ osuStatus \in OsuStatuses
    /\ discord_service = <<"DiscordService">>
    /\ task_notify = <<"Notify">>
    /\ task = <<1>>
    /\ muted_users = {}
    /\ permit = FALSE
    /\ \E r \in Results : tasks = <<[NewTask EXCEPT !.pc = "w167", !.result = r]>>
    /\ call = IdleCall

NextWatchdog ==
    \/ \E t \in DOMAIN tasks : WdResolve(t)
    \/ \E t \in DOMAIN tasks : WdLockService(t)
    \/ \E t \in DOMAIN tasks : WdLockStatus(t)
    \/ \E t \in DOMAIN tasks : WdWrite(t)

SpecWatchdog == InitWatchdog /\ [][NextWatchdog]_vars


\* ---------------------------------------------------------------- properties
Done(t) == tasks[t].pc = "done"

\* C1: once the watchdog has run on a task that returned Ok(()), the service's
\* status is RuntimeError and its reason says the task stopped unexpectedly.
C1_CleanReturnIsRuntimeError ==
    \A t \in DOMAIN tasks :
        (Done(t) /\ tasks[t].result.ok) =>
            /\ osuStatus.kind = "RuntimeError"
            /\ Contains(osuStatus.reason, StoppedUnexpectedly)

C1_Witness ==
    \E t \in DOMAIN tasks :
        Done(t) /\ tasks[t].result.ok /\ osuStatus = RuntimeError(StoppedUnexpectedly)

\* C2: once the watchdog has run on a task that returned Err(e), the status is
\* RuntimeError and its reason contains e's description (for
\* DiscordServiceNotAvailable, the status string it carries).
C2_ErrorIsRuntimeError ==
    \A t \in DOMAIN tasks :
        (Done(t) /\ ~tasks[t].result.ok) =>
            /\ osuStatus.kind = "RuntimeError"
            /\ Contains(osuStatus.reason, TaskErrorDisplay(tasks[t].result.err))
            /\ Contains(osuStatus.reason, tasks[t].result.err.status)
            /\ tasks[t].result.err.tag = "DiscordServiceNotFound"
                   => Contains(osuStatus.reason, <<"Discord service not found!">>)

C2_Witness ==
    \E t \in DOMAIN tasks :
        /\ Done(t)
        /\ tasks[t].result = Err(DiscordServiceNotAvailable(<<"Stopping">>))
        /\ osuStatus.kind = "RuntimeError"
        /\ Contains(osuStatus.reason, <<"Stopping">>)

\* C3: a task that was aborted or that panicked has RuntimeError recorded
\* in the owning service's status.
C3_AbnormalTerminationRecorded ==
    \A t \in DOMAIN tasks :
        tasks[t].pc \in {"aborted", "panicked"} => osuStatus.kind = "RuntimeError"

\* C4: a start() whose dependency is unregistered or reports unavailable
\* returns that error and leaves the three cells and the set of spawned tasks
\* as they were; while the dependency handle is unset, the wake signal and
\* the task handle are unset and nothing is spawned.
C4_DependencyError ==
    /\ call.pc = "start61"
    /\ call'.pc # "start61"
    /\ ~discordRegistered \/ ~call'.avail

C4_FailedCheckSpawnsNothing ==
    /\ [](~IsSet(discord_service) => (~IsSet(task_notify) /\ ~IsSet(task) /\ tasks = <<>>))
    /\ [][C4_DependencyError =>
            /\ call'.pc = "startRet"
            /\ call'.result \in {ErrDiscordNotFound, ErrDiscordNotAvailable}
            /\ UNCHANGED <<discord_service, task_notify, task, tasks>>]_vars

C4_Witness ==
    /\ call.pc = "startRet"
    /\ call.result = ErrDiscordNotAvailable
    /\ ~IsSet(discord_service) /\ ~IsSet(task_notify) /\ ~IsSet(task)
    /\ tasks = <<>>

\* C5: when start() returns Ok the dependency was found and reported
\* available, the three cells are set, and the call spawned exactly one task,
\* whose handle is the one in the task cell.
C5_StartReturnedOk == call.op = "start" /\ call.pc = "startRet" /\ call.result = StartOk

C5_SuccessMeansStarted ==
    /\ [](C5_StartReturnedOk =>
            /\ call.found /\ call.avail
            /\ IsSet(discord_service) /\ IsSet(task_notify) /\ IsSet(task)
            /\ task = <<Len(tasks)>>)
    /\ [][C5_StartReturnedOk' /\ ~C5_StartReturnedOk => Len(tasks') = Len(tasks) + 1]_vars

C5_Witness == C5_StartReturnedOk /\ Len(tasks) = 1 /\ tasks[1].pc = "t126"

\* C6: a task that found muted_users empty does not go on to the dependency
\* check, the sleep and the tick unless it went through the wake signal.
C6_EmptySuspends ==
    \A t \in DOMAIN tasks :
        (tasks[t].pc \in {"t149", "t161"} /\ tasks[t].are_users_muted) => tasks[t].woken

\* C7: between two evaluations of the condition the loop ticks exactly once:
\* a task back at the loop head has ticked once since it last evaluated the
\* condition, and a task inside an iteration has not ticked yet.
C7_OneTickPerIteration ==
    \A t \in DOMAIN tasks :
        /\ (tasks[t].pc = "t133" /\ tasks[t].evaluated) => tasks[t].ticks = 1
        /\ tasks[t].pc \in {"t146", "t149", "t161"} => tasks[t].ticks = 0

C7_Witness ==
    \E t \in DOMAIN tasks :
        /\ tasks[t].pc = "t133"
        /\ tasks[t].woken
        /\ tasks[t].ticks = 1
        /\ Cardinality(muted_users) = 2

\* C8: a task that came through the wake signal ticks only on a condition
\* that still held when it woke: the value of are_users_muted it acts on is
\* the state of muted_users at the wake.
C8_StaleWakeNeverTicks ==
    \A t \in DOMAIN tasks :
        (tasks[t].pc = "t161" /\ tasks[t].woken) =>
            tasks[t].are_users_muted = tasks[t].empty_at_wake

\* C9: stop() on a set task handle returns Ok with abort requested on the
\* spawned task, and a task on which the abort has taken effect takes no
\* further step.
C9_StopAborts ==
    /\ []((call.pc = "stop98" /\ IsSet(task)) => task[1] \in DOMAIN tasks)
    /\ [](call.pc = "stopRet" =>
            /\ call.result = StartOk
            /\ IsSet(task)
            /\ tasks[task[1]].abort)
    /\ [][\A t \in DOMAIN tasks : tasks[t].pc = "aborted" => tasks'[t] = tasks[t]]_vars

C9_Witness ==
    /\ call.op = "stop"
    /\ call.result = StartOk
    /\ \E t \in DOMAIN tasks : tasks[t].pc = "aborted" /\ tasks[t].evaluated

\* C10: once the watchdog has recorded RuntimeError, only the manager's own
\* status writes around a start()/stop() call change the status, and no
\* further task is spawned.
C10_ManagerStep == call.pc \in {"queued", "startRet", "stopRet"} /\ call'.pc # call.pc

C10_RuntimeErrorTerminal ==
    [][(\E t \in DOMAIN tasks : Done(t)) =>
            /\ Len(tasks') = Len(tasks)
            /\ osuStatus' # osuStatus => C10_ManagerStep]_vars

C10_Witness ==
    /\ \E t \in DOMAIN tasks : Done(t)
    /\ call.op = "start"
    /\ call.pc = "startRet"
    /\ call.result = ErrSetDiscord
    /\ Len(tasks) = 1

\* C11: a start() returns an AlreadySet error only on an instance on which
\* an earlier start() returned Ok(()); after failed start() calls alone no
\* cell write is rejected.
C11_AlreadySetErrors == {ErrSetDiscord, ErrSetNotify, ErrSetTask}

C11_AlreadySetOnlyAfterSuccess ==
    /\ call.result \in C11_AlreadySetErrors => call.started
    /\ (~call.started /\ call.pc \in {"idle", "queued", "start61"}) =>
           (~IsSet(discord_service) /\ ~IsSet(task_notify) /\ ~IsSet(task))

C11_Witness ==
    /\ call.op = "start"
    /\ call.pc = "startRet"
    /\ call.result = ErrSetDiscord
    /\ call.started

\* C12: a future whose task returned DiscordServiceNotAvailable does not end
\* before its watchdog has recorded the error in the service's status.
C12_UnavailabilityRecorded ==
    \A t \in DOMAIN tasks :
        (/\ ~tasks[t].result.ok
         /\ tasks[t].result.err.tag = "DiscordServiceNotAvailable"
         /\ tasks[t].pc \in Finished) => Done(t)

\* C13: a task reaches the sleep and tick only from the dependency check of
\* the same iteration, at a moment the DiscordService status is Started, and
\* it ticks only from there.
C13_TickOnlyAfterStarted ==
    [][\A t \in DOMAIN tasks :
          /\ (tasks'[t].pc = "t161" /\ tasks[t].pc # "t161") =>
                 (tasks[t].pc = "t149" /\ discordStatus.kind = "Started")
          /\ tasks'[t].ticks > tasks[t].ticks => tasks[t].pc = "t161"]_vars

C13_Witness ==
    \E t \in DOMAIN tasks :
        tasks[t].pc = "t133" /\ tasks[t].ticks = 1 /\ discordStatus.kind = "Stopping"

\* C14: no future is at a suspension point while it holds the write guard on
\* the OsuMuteService status, and none sleeps while it holds the read guard
\* on the DiscordService status.
SuspensionPoints == {"t126", "t133", "t146", "t161", "w167", "w172", "w173"}

C14_GuardsNotHeldAcrossAwait ==
    \A t \in DOMAIN tasks :
        /\ tasks[t].pc \in SuspensionPoints => "osu_mute_service_status" \notin tasks[t].guards
        /\ tasks[t].pc = "t161" => "discord_service_status" \notin tasks[t].guards
        /\ tasks[t].pc = "w175" => "osu_mute_service_status" \in tasks[t].guards

C14_Witness ==
    \E t \in DOMAIN tasks :
        /\ tasks[t].pc = "t161"
        /\ tasks[t].guards = {"osu_mute_service_lock", "discord_service_lock"}

\* C15: a step of the task or of the watchdog leaves the DiscordService as it
\* is, and a step of the watchdog leaves the cells, the wake signal and
\* muted_users as they are.
C15_FutureStep(t) == tasks'[t].pc # tasks[t].pc /\ tasks'[t].pc # "aborted"

C15_WatchdogStep(t) == C15_FutureStep(t) /\ tasks[t].pc \in {"w167", "w172", "w173", "w175"}

C15_ReadsDiscordOnly ==
    [][\A t \in DOMAIN tasks :
          /\ C15_FutureStep(t) => UNCHANGED <<discordStatus, discordRegistered>>
          /\ C15_WatchdogStep(t) =>
                 UNCHANGED <<discord_service, task_notify, task, muted_users, permit>>]_vars

C15_Witness ==
    \E t \in DOMAIN tasks :
        /\ Done(t)
        /\ muted_users # {}
        /\ IsSet(discord_service) /\ IsSet(task_notify) /\ task = <<t>>
        /\ osuStatus = WatchdogStatus(tasks[t].result)

\* C16: a stop() request on a started service is never left waiting for the
\* service behind a task that holds its read guard while suspended on a wake
\* signal nobody has fired.
C16_StopBlocked ==
    /\ call.started
    /\ call.op = "stop"
    /\ call.pc = "queued"
    /\ \E t \in OsuReadHolders :
           tasks[t].pc = "t146" /\ ~tasks[t].woken /\ ~tasks[t].abort

C16_StopNeverBlocked == ~C16_StopBlocked

\* C17: at most one task is ever spawned, and a start() on an instance on
\* which start() already returned Ok(()) returns an error from its first
\* step, with the three cells and the spawned tasks unchanged.
C17_LaterStartStep == call.started /\ call.pc \in {"start61", "start77"} /\ call' # call

C17_SingleSpawn ==
    /\ [](Len(tasks) <= 1)
    /\ [][C17_LaterStartStep =>
            /\ call.pc = "start61"
            /\ call'.pc = "startRet"
            /\ call'.result # StartOk
            /\ UNCHANGED <<discord_service, task_notify, task, tasks>>]_vars

C17_Witness ==
    /\ call.started
    /\ call.op = "start"
    /\ call.pc = "startRet"
    /\ call.result # StartOk
    /\ Len(tasks) = 1
    /\ tasks[1].pc = "aborted"

\* C18: every spawned task has its handle in the task cell, and start() never
\* returns the error of a rejected task-handle write.
C18_NoOrphanTask ==
    /\ \A t \in DOMAIN tasks : task = <<t>>
    /\ call.result # ErrSetTask

C18_Witness ==
    /\ call.op = "start"
    /\ call.pc = "startRet"
    /\ call.result = ErrDiscordNotAvailable
    /\ Len(tasks) = 1
    /\ task = <<1>>
    /\ tasks[1].pc \notin Finished

\* C19: no task panics on an unset cell: while a task is in its loop the
\* wake-signal cell and the dependency-handle cell are set.
C19_CellsSetWhenRead ==
    \A t \in DOMAIN tasks :
        /\ tasks[t].pc # "panicked"
        /\ tasks[t].pc \in {"t133", "t146", "t149", "t161"} =>
               (IsSet(task_notify) /\ IsSet(discord_service))

C19_Witness ==
    \E t \in DOMAIN tasks :
        /\ tasks[t].pc = "t146"
        /\ "task_notify" \in tasks[t].guards
        /\ IsSet(task_notify)
        /\ IsSet(discord_service)

====
